---- MODULE Spec2Model ----
(***************************************************************************)
(* Long-running-operation lifecycle of dvaruas/restest, internal/utils:    *)
(*   LongrunningOperation.Process, RetryFunc and                           *)
(*   ProcessLongRunningOperationToCompletion.                              *)
(*                                                                         *)
(* Time is counted in ticks of 50ms (the initial pause of RetryFunc), so   *)
(* every pause of the backoff sequence is a whole number of ticks.         *)
(***************************************************************************)
EXTENDS Integers, Sequences, FiniteSets, TLC

\* ------------------------------------------------------------------------
\* Values
\* ------------------------------------------------------------------------

\* Go's nil error.  Every error value is a record of the same shape.
Nil == [kind |-> "nil", code |-> 0, msg |-> "", wraps |-> ""]

\* Errors a trigger/get transport call can fail with.
TransportErrors ==
    { [kind |-> "transport", code |-> 0, msg |-> m, wraps |-> ""] :
        m \in {"unavailable", "context canceled"} }

\* The error of a transport call whose context was cancelled.
Canceled == [kind |-> "transport", code |-> 0, msg |-> "context canceled", wraps |-> ""]

\* fmt.Errorf(format) with an optional wrapped error (%w / %v operand).
Errorf(format, inner) ==
    [kind |-> "fmt", code |-> 0, msg |-> format, wraps |-> inner]

\* google.rpc.Status messages a reply can embed; NilStatus is the absent one.
NilStatus == [code |-> -1, message |-> ""]
Statuses == { [code |-> c, message |-> "bad input"] : c \in {0, 3} }

\* status.ErrorProto(s): FromProto(s).Err(), which is nil for code OK (0).
ErrorProto(s) ==
    IF s.code = 0 THEN Nil
    ELSE [kind |-> "status", code |-> s.code, msg |-> s.message, wraps |-> ""]

\* anypb.Any payloads: a type URL and the encoded bytes.  "Resp" is the
\* message type the Operation was instantiated with, "Other" another
\* registered type, "Unregistered" a type the resolver does not know.
NilAny == [typeUrl |-> "", value |-> ""]
AnyPayloads ==
    { [typeUrl |-> "Resp", value |-> "pong"],
      [typeUrl |-> "Resp", value |-> "corrupt"],
      [typeUrl |-> "Other", value |-> "pong"],
      [typeUrl |-> "Unregistered", value |-> "pong"] }

\* Decoded proto messages; NilMsg is the nil message (zero value of Resp).
NilMsg == [type |-> "", body |-> ""]
Requests == { [type |-> "Req", body |-> b] : b \in {"ping", "ping2"} }

\* anypb.UnmarshalNew(src, opts): empty type URL, unknown type and
\* undecodable bytes are errors; otherwise a new message of the URL's type.
UnmarshalNew(src) ==
    IF src.typeUrl = ""
    THEN [msg |-> NilMsg, err |-> Errorf("invalid empty type URL", "")]
    ELSE IF src.typeUrl \notin {"Resp", "Other"}
    THEN [msg |-> NilMsg, err |-> Errorf("message type not found", "")]
    ELSE IF src.value = "corrupt"
    THEN [msg |-> NilMsg, err |-> Errorf("cannot parse invalid wire-format data", "")]
    ELSE [msg |-> [type |-> src.typeUrl, body |-> src.value], err |-> Nil]

\* respMsg.(Resp): the comma-ok type assertion; on failure the value is the
\* zero value of Resp.
TypeAssertResp(respMsg) ==
    IF respMsg.type = "Resp"
    THEN [val |-> respMsg, ok |-> TRUE]
    ELSE [val |-> NilMsg, ok |-> FALSE]

\* *longrunningpb.Operation replies.  The result is a oneof: nothing, an
\* error status or a response payload.  NilOp is the nil pointer.
Names == {"op-1", "op-2"}
ReplyNames == Names \cup {""}
NilOp == [isnil |-> TRUE, name |-> "", done |-> FALSE,
          error |-> NilStatus, response |-> NilAny]
OpResults ==
    { [isnil |-> FALSE, name |-> n, done |-> d, error |-> e, response |-> NilAny] :
        n \in ReplyNames, d \in BOOLEAN, e \in Statuses \cup {NilStatus} }
    \cup
    { [isnil |-> FALSE, name |-> n, done |-> d, error |-> NilStatus, response |-> r] :
        n \in ReplyNames, d \in BOOLEAN, r \in AnyPayloads }

\* The nil-safe generated getters of longrunningpb.Operation.
GetName(x) == IF x.isnil THEN "" ELSE x.name
GetDone(x) == IF x.isnil THEN FALSE ELSE x.done
GetError(x) == IF x.isnil THEN NilStatus ELSE x.error
GetResponse(x) == IF x.isnil THEN NilAny ELSE x.response

\* What one trigger/get call hands back: (opResult, err).
Replies ==
    { [opResult |-> x, err |-> Nil] : x \in OpResults \cup {NilOp} }
    \cup
    { [opResult |-> NilOp, err |-> e] : e \in TransportErrors }

\* ------------------------------------------------------------------------
\* LongrunningOperation
\* ------------------------------------------------------------------------

\* CreateLongrunningOperation(trigger, get, req)
CreateLongrunningOperation(req) ==
    [OperationName |-> "", OperationError |-> Nil, OperationDone |-> FALSE,
     Request |-> req, Response |-> NilMsg]

NoCall == [fn |-> "none", name |-> "", req |-> NilMsg]

\* No document: MarshalJSON has not been called.
NoDocument == [bytes |-> [OperationName |-> "", OperationError |-> "null",
                          OperationDone |-> FALSE,
                          Requestbytes |-> {}, Responsebytes |-> {}],
               err |-> Errorf("no document", "")]

\* Process, lines 42-47: the two early returns on a terminal Operation.
EarlyReturn_ErrorOnly(o) ==
    IF o.OperationError # Nil
    THEN [hit |-> TRUE, err |-> o.OperationError]
    ELSE [hit |-> FALSE, err |-> Nil]

EarlyReturn_DoneOnly(o) ==
    IF o.OperationDone
    THEN [hit |-> TRUE, err |-> o.OperationError]
    ELSE [hit |-> FALSE, err |-> Nil]

EarlyReturn(o) ==
    IF o.OperationError # Nil
    THEN [hit |-> TRUE, err |-> o.OperationError]
    ELSE IF o.OperationDone
    THEN [hit |-> TRUE, err |-> Nil]
    ELSE [hit |-> FALSE, err |-> Nil]

\* Process, lines 54-60: trigger with the request when no name is stored,
\* get with the stored name otherwise.
Collaborator_AlwaysTrigger(o) ==
    [fn |-> "trigger", name |-> "", req |-> o.Request]

Collaborator(o) ==
    IF o.OperationName = ""
    THEN [fn |-> "trigger", name |-> "", req |-> o.Request]
    ELSE [fn |-> "get", name |-> o.OperationName, req |-> NilMsg]

\* Process, lines 78-90: decode the payload and store it as Response.
Materialize_NoStore(o, payload) ==
    LET u == UnmarshalNew(payload) IN
    IF u.err # Nil
    THEN LET e == Errorf("unmarshal resonse: %w", u.err.msg) IN
         [l |-> [o EXCEPT !.OperationError = e], terminal |-> TRUE, err |-> e]
    ELSE LET a == TypeAssertResp(u.msg) IN
         IF ~a.ok
         THEN LET e == Errorf("unexpected response message of different type received: %v",
                              u.msg.type) IN
              [l |-> [o EXCEPT !.OperationError = e], terminal |-> TRUE, err |-> e]
         ELSE [l |-> o, terminal |-> TRUE, err |-> Nil]

Materialize(o, payload) ==
    LET u == UnmarshalNew(payload) IN
    IF u.err # Nil
    THEN LET e == Errorf("unmarshal resonse: %w", u.err.msg) IN
         [l |-> [o EXCEPT !.OperationError = e], terminal |-> TRUE, err |-> e]
    ELSE LET a == TypeAssertResp(u.msg)
             o1 == [o EXCEPT !.Response = a.val] IN
         IF ~a.ok
         THEN LET e == Errorf("unexpected response message of different type received: %v",
                              u.msg.type) IN
              [l |-> [o1 EXCEPT !.OperationError = e], terminal |-> TRUE, err |-> e]
         ELSE [l |-> o1, terminal |-> TRUE, err |-> Nil]

\* Process, lines 61-91: what the call does with the collaborator's reply.
HandleReply_MarksDone(o, reply) ==
    IF reply.err # Nil
    THEN [l |-> [o EXCEPT !.OperationError = reply.err, !.OperationDone = TRUE],
          terminal |-> TRUE, err |-> reply.err]
    ELSE
      LET o1 == [o EXCEPT !.OperationName = GetName(reply.opResult),
                          !.OperationDone = GetDone(reply.opResult)] IN
      IF ~o1.OperationDone
      THEN [l |-> o1, terminal |-> FALSE, err |-> Nil]
      ELSE IF GetError(reply.opResult) # NilStatus
      THEN LET e == ErrorProto(GetError(reply.opResult)) IN
           [l |-> [o1 EXCEPT !.OperationError = e], terminal |-> TRUE, err |-> e]
      ELSE Materialize(o1, GetResponse(reply.opResult))

HandleReply(o, reply) ==
    IF reply.err # Nil
    THEN [l |-> [o EXCEPT !.OperationError = reply.err],
          terminal |-> TRUE, err |-> reply.err]
    ELSE
      LET o1 == [o EXCEPT !.OperationName = GetName(reply.opResult),
                          !.OperationDone = GetDone(reply.opResult)] IN
      IF ~o1.OperationDone
      THEN [l |-> o1, terminal |-> FALSE, err |-> Nil]
      ELSE IF GetError(reply.opResult) # NilStatus
      THEN LET e == ErrorProto(GetError(reply.opResult)) IN
           [l |-> [o1 EXCEPT !.OperationError = e], terminal |-> TRUE, err |-> e]
      ELSE Materialize(o1, GetResponse(reply.opResult))

\* (l *LongrunningOperation) Process(ctx): the Operation after the call, the
\* returned (bool, error) and the collaborator call made, given the reply
\* the collaborator would hand back.
Process(o, reply) ==
    LET early == EarlyReturn(o) IN
    IF early.hit
    THEN [l |-> o, terminal |-> TRUE, err |-> early.err, call |-> NoCall]
    ELSE LET r == HandleReply(o, reply) IN
         [l |-> r.l, terminal |-> r.terminal, err |-> r.err,
          call |-> Collaborator(o)]

\* ------------------------------------------------------------------------
\* protojson and CustomProtoMessage
\* ------------------------------------------------------------------------

\* JSON documents are sets of <<key, value>> members; {} is the text "{}".
NoBytes == [bytes |-> {}, err |-> Errorf("no bytes", "")]

\* A string field holding bytes that are not valid UTF-8.
InvalidUTF8 == "\\xff"

\* protojson.Marshal(m) for a message with one string field, body: a nil
\* message and a message with the default body encode as {}, unknown fields
\* are not emitted, and invalid UTF-8 is an error.
ProtojsonMarshal(isnil, body) ==
    IF isnil THEN [bytes |-> {}, err |-> Nil]
    ELSE IF body = InvalidUTF8
    THEN [bytes |-> {}, err |-> Errorf("proto: field contains invalid UTF-8", "")]
    ELSE IF body = "" THEN [bytes |-> {}, err |-> Nil]
    ELSE [bytes |-> {<<"body", body>>}, err |-> Nil]

\* protojson.Unmarshal(b, m) into a new message: a member the schema does
\* not know is an error (DiscardUnknown is not set), a missing body is "".
ProtojsonUnmarshal(b) ==
    IF \E kv \in b : kv[1] # "body"
    THEN [body |-> "", err |-> Errorf("proto: unknown field", "")]
    ELSE IF b = {} THEN [body |-> "", err |-> Nil]
    ELSE [body |-> (CHOOSE kv \in b : TRUE)[2], err |-> Nil]

\* Messages of the type M an envelope is instantiated with: the typed nil
\* pointer, or a message with its body and the unknown fields it retains.
MsgTypes == {"Req", "Resp"}
NilProto(t) == [type |-> t, isnil |-> TRUE, body |-> "", unknown |-> ""]
ProtoMsgs ==
    { [type |-> t, isnil |-> FALSE, body |-> b, unknown |-> u] :
        t \in MsgTypes, b \in {"", "pong", InvalidUTF8}, u \in {"", "field-9"} }

\* The nil *CustomProtoMessage, and a CustomProtoMessage value.
NilEnvelope == [isnil |-> TRUE, Msg |-> NilProto("")]
Envelope(m) == [isnil |-> FALSE, Msg |-> m]

\* CreateCustomProtoMessage(m)
CreateCustomProtoMessage_NoNilCheck(m) ==
    Envelope(m)

CreateCustomProtoMessage(m) ==
    IF m.isnil THEN NilEnvelope ELSE Envelope(m)

\* (pm *CustomProtoMessage) MarshalJSON()
EnvelopeMarshalJSON(pm) ==
    ProtojsonMarshal(pm.Msg.isnil, pm.Msg.body)

\* (pm *CustomProtoMessage) UnmarshalJSON(b): decode into a new message of
\* pm.Msg's type and store it; on an error pm is left as it was.
EnvelopeUnmarshalJSON(pm, b) ==
    LET u == ProtojsonUnmarshal(b) IN
    IF u.err # Nil THEN [pm |-> pm, err |-> u.err]
    ELSE [pm |-> [pm EXCEPT !.Msg = [type |-> pm.Msg.type, isnil |-> FALSE,
                                     body |-> u.body, unknown |-> ""]],
          err |-> Nil]

\* Documents handed to UnmarshalJSON besides the ones MarshalJSON produced.
ForeignBytes ==
    { {}, {<<"body", "pong">>}, {<<"body", "ping">>}, {<<"extra", "1">>},
      {<<"body", "pong">>, <<"extra", "1">>} }

\* ------------------------------------------------------------------------
\* LongrunningOperation.MarshalJSON / UnmarshalJSON
\* ------------------------------------------------------------------------

\* encoding/json on the OperationError field, an error interface: nil is
\* written as null, any error value as a JSON object.
JsonMarshalError(e) == IF e = Nil THEN "null" ELSE "{}"

\* (l *LongrunningOperation) MarshalJSON(), lines 93-113.
OperationMarshalJSON(o) ==
    LET rq == ProtojsonMarshal(o.Request = NilMsg, o.Request.body)
        rs == ProtojsonMarshal(o.Response = NilMsg, o.Response.body) IN
    IF rq.err # Nil
    THEN [bytes |-> NoDocument.bytes,
          err |-> Errorf("protojson.Marshal of request: %w", rq.err.msg)]
    ELSE IF rs.err # Nil
    THEN [bytes |-> NoDocument.bytes,
          err |-> Errorf("protojson.Marshal of response: %w", rs.err.msg)]
    ELSE [bytes |-> [OperationName |-> o.OperationName,
                     OperationError |-> JsonMarshalError(o.OperationError),
                     OperationDone |-> o.OperationDone,
                     Requestbytes |-> rq.bytes,
                     Responsebytes |-> rs.bytes],
          err |-> Nil]

\* (l *LongrunningOperation) UnmarshalJSON(data), lines 115-142.
\* json.Unmarshal cannot decode an object into the error interface; null
\* leaves it nil.  Request and Response are then decoded into new messages.
OperationUnmarshalJSON(l, doc) ==
    IF doc.OperationError # "null"
    THEN [l |-> l,
          err |-> Errorf("json: cannot unmarshal object into Go struct field of type error", "")]
    ELSE
      LET l1 == [l EXCEPT !.OperationDone = doc.OperationDone,
                          !.OperationError = Nil,
                          !.OperationName = doc.OperationName]
          rq == ProtojsonUnmarshal(doc.Requestbytes)
          rs == ProtojsonUnmarshal(doc.Responsebytes) IN
      IF rq.err # Nil THEN [l |-> l1, err |-> rq.err]
      ELSE LET l2 == [l1 EXCEPT !.Request = [type |-> "Req", body |-> rq.body]] IN
           IF rs.err # Nil THEN [l |-> l2, err |-> rs.err]
           ELSE [l |-> [l2 EXCEPT !.Response = [type |-> "Resp", body |-> rs.body]],
                 err |-> Nil]

\* ------------------------------------------------------------------------
\* RetryFunc
\* ------------------------------------------------------------------------

\* Bounds of the model.
MaxStartLag == 1     \* ticks between time.Now() and the first loop check
MaxCount == 10       \* counters stop counting here
MaxLog == 7          \* pauses recorded in the sleep log
MaxAwaits == 2       \* await calls made on one Operation
MaxTriggers == 3     \* successful trigger calls counted

\* Program constants, in ticks of 50ms.
InitialPause == 1    \* pause := 50 * time.Millisecond
MaxPause == 20       \* maxPause := 1 * time.Second
TenMinutes == 12000  \* time.Minute*10

\* Timeouts RetryFunc is called with: negative, zero, 50ms, 200ms, 5s.
TickMs == 50
FiveSeconds == 5000 \div TickMs
Timeouts == {-1, 0, 1, 4, FiveSeconds}

\* Errors a plain attempt closure fails with.
\* How long one call of the closure takes: it returns at once, or after a
\* round trip of one second.
FnDurations == {0, 20}

FnErrors == { Errorf(m, "") : m \in {"boom-1", "boom-2"} }

Min(a, b) == IF a < b THEN a ELSE b

\* RetryFunc, line 29: the loop condition time.Until(deadline) >= 0.
LoopCond_Lenient(t, d) == d - t >= -1

LoopCond(t, d) == d - t >= 0

\* RetryFunc, lines 35-38: the pause after a failed attempt.
NextPause_NoCap(p) == 2 * p

NextPause(p) == IF 2 * p > MaxPause THEN MaxPause ELSE 2 * p

\* ------------------------------------------------------------------------
\* State
\* ------------------------------------------------------------------------
VARIABLES
    op,             \* the LongrunningOperation l
    ret,            \* what the last Process call returned
    call,           \* the collaborator call the last Process call made
    reply,          \* the reply handed to the last Process call
    pre,            \* l before the last Process call
    firstTerminal,  \* the first terminal=true outcome Process returned
    triggersOk,     \* direct Process calls whose trigger returned no error
    pc,             \* position in RetryFunc: idle, loop, sleep, done
    fnKind,         \* the closure RetryFunc runs: plain or process
    timeout,        \* RetryFunc's timeout argument
    now,            \* the clock, ticks since RetryFunc was entered
    deadline,       \* RetryFunc's deadline
    pause,          \* RetryFunc's pause
    tryCount,       \* RetryFunc's tryCount
    err,            \* RetryFunc's err
    attempts,       \* calls of the closure made by this RetryFunc call
    slept,          \* the pauses slept by this RetryFunc call, in order
    retryRet,       \* what RetryFunc returned
    isdone,         \* ProcessLongRunningOperationToCompletion's isdone
    innererr,       \* ProcessLongRunningOperationToCompletion's innererr
    awaitRet,       \* what ProcessLongRunningOperationToCompletion returned
    awaits,         \* calls of ProcessLongRunningOperationToCompletion so far
    cancelled,      \* the context of the running await call was cancelled
    callsAfterCancel,   \* collaborator calls made since the cancellation
    sleepsAfterCancel,  \* sleeps started since the cancellation
    epc,            \* envelope scenario: idle, wrapped, marshalled, unmarshalled
    msgIn,          \* the message given to CreateCustomProtoMessage
    env,            \* the envelope CreateCustomProtoMessage returned
    data,           \* what the envelope's MarshalJSON returned
    fed,            \* the bytes given to UnmarshalJSON
    out,            \* the receiving envelope and error after UnmarshalJSON
    ppc,            \* persistence scenario: none, saved, loaded
    orig,           \* the Operation when MarshalJSON was called
    saved,          \* what the Operation's MarshalJSON returned
    loadErr         \* what the Operation's UnmarshalJSON returned

opVars == <<op, ret, call, reply, pre, firstTerminal, triggersOk>>
retryVars == <<pc, fnKind, timeout, now, deadline, pause, tryCount, err,
               attempts, slept, retryRet>>
awaitVars == <<isdone, innererr, awaitRet, awaits>>
cancelVars == <<cancelled, callsAfterCancel, sleepsAfterCancel>>
envVars == <<epc, msgIn, env, data, fed, out>>
persistVars == <<ppc, orig, saved, loadErr>>
vars == <<op, ret, call, reply, pre, firstTerminal, triggersOk,
          pc, fnKind, timeout, now, deadline, pause, tryCount, err,
          attempts, slept, retryRet, isdone, innererr, awaitRet, awaits,
          cancelled, callsAfterCancel, sleepsAfterCancel,
          epc, msgIn, env, data, fed, out, ppc, orig, saved, loadErr>>

NoRet == [valid |-> FALSE, terminal |-> FALSE, err |-> Nil]
NoReply == [opResult |-> NilOp, err |-> Nil]
NoTerminal == [seen |-> FALSE, err |-> Nil]

\* The state after CreateLongrunningOperation, before any call.
Init ==
    /\ \E req \in Requests : op = CreateLongrunningOperation(req)
    /\ ret = NoRet
    /\ call = NoCall
    /\ reply = NoReply
    /\ pre = op
    /\ firstTerminal = NoTerminal
    /\ triggersOk = 0
    /\ pc = "idle"
    /\ fnKind = "plain"
    /\ timeout = 0
    /\ now = 0
    /\ deadline = 0
    /\ pause = InitialPause
    /\ tryCount = 0
    /\ err = Nil
    /\ attempts = 0
    /\ slept = << >>
    /\ retryRet = Nil
    /\ isdone = FALSE
    /\ innererr = Nil
    /\ awaitRet = Nil
    /\ awaits = 0
    /\ cancelled = FALSE
    /\ callsAfterCancel = 0
    /\ sleepsAfterCancel = 0
    /\ epc = "idle"
    /\ msgIn = NilProto("Resp")
    /\ env = NilEnvelope
    /\ data = NoBytes
    /\ fed = {}
    /\ out = [pm |-> NilEnvelope, err |-> Nil]
    /\ ppc = "none"
    /\ orig = op
    /\ saved = NoDocument
    /\ loadErr = Nil

\* The effect of one l.Process(ctx) call on the Operation and its record.
DoProcess(rep) ==
    LET r == Process(op, rep) IN
    /\ op' = r.l
    /\ ret' = [valid |-> TRUE, terminal |-> r.terminal, err |-> r.err]
    /\ call' = r.call
    /\ firstTerminal' = IF r.terminal /\ ~firstTerminal.seen
                        THEN [seen |-> TRUE, err |-> r.err]
                        ELSE firstTerminal

\* A caller invokes l.Process(ctx) directly; the collaborator answers rep.
ProcessCall(rep) ==
    /\ pc = "idle"
    /\ DoProcess(rep)
    /\ reply' = rep
    /\ pre' = op
    /\ triggersOk' = IF Process(op, rep).call.fn = "trigger" /\ rep.err = Nil
                     THEN Min(triggersOk + 1, MaxTriggers)
                     ELSE triggersOk
    /\ UNCHANGED <<retryVars, awaitVars, cancelVars, envVars, persistVars>>

Next == \E rep \in Replies : ProcessCall(rep)

Spec == Init /\ [][Next]_vars

\* ---- RetryFunc with a plain closure ----

\* RetryFunc(timeout, fn), lines 23-28, up to the first loop check.
EnterRetry(t, lag, kind) ==
    /\ fnKind' = kind
    /\ timeout' = t
    /\ deadline' = t
    /\ now' = lag
    /\ pause' = InitialPause
    /\ tryCount' = 0
    /\ err' = Nil
    /\ attempts' = 0
    /\ slept' = << >>
    /\ retryRet' = Nil
    /\ pc' = "loop"

CallRetryFunc(t, lag) ==
    /\ pc = "idle"
    /\ EnterRetry(t, lag, "plain")
    /\ UNCHANGED <<opVars, awaitVars, cancelVars, envVars, persistVars>>

\* Lines 29-32 with a plain closure: the loop condition holds, fn runs for
\* dur ticks and returns outcome; nil ends RetryFunc.
PlainAttempt(outcome, dur) ==
    /\ pc = "loop"
    /\ fnKind = "plain"
    /\ LoopCond(now, deadline)
    /\ now' = now + dur
    /\ attempts' = Min(attempts + 1, MaxCount)
    /\ err' = outcome
    /\ IF outcome = Nil
       THEN pc' = "done" /\ retryRet' = Nil
       ELSE pc' = "sleep" /\ UNCHANGED retryRet
    /\ UNCHANGED <<fnKind, timeout, deadline, pause, tryCount, slept>>
    /\ UNCHANGED <<opVars, awaitVars, cancelVars, envVars, persistVars>>

\* Lines 34-40: sleep, double the pause up to the cap, count the try.
Sleep ==
    /\ pc = "sleep"
    /\ now' = now + pause
    /\ slept' = IF Len(slept) < MaxLog THEN Append(slept, pause) ELSE slept
    /\ pause' = NextPause(pause)
    /\ tryCount' = Min(tryCount + 1, MaxCount)
    /\ pc' = "loop"
    /\ UNCHANGED <<fnKind, timeout, deadline, err, attempts, retryRet>>
    /\ sleepsAfterCancel' = IF cancelled
                            THEN Min(sleepsAfterCancel + 1, MaxCount)
                            ELSE sleepsAfterCancel
    /\ UNCHANGED <<opVars, isdone, innererr, awaitRet, awaits>>
    /\ UNCHANGED <<cancelled, callsAfterCancel>>
    /\ UNCHANGED <<envVars, persistVars>>

\* ProcessLongRunningOperationToCompletion, lines 164-168: what the closure
\* returns to RetryFunc after Process returned (terminal, inner).
ClosureError_RetryOnError(terminal, inner) ==
    IF ~terminal \/ inner # Nil THEN Errorf("trying continues", "") ELSE Nil

ClosureError(terminal, inner) ==
    IF ~terminal THEN Errorf("trying continues", "") ELSE Nil

\* ProcessLongRunningOperationToCompletion, lines 169-172: its return value
\* once RetryFunc has returned e.
AwaitResult_AlwaysTimeout(e, inner) ==
    Errorf("timed-out while retrying", "")

AwaitResult(e, inner) ==
    IF e # Nil THEN Errorf("timed-out while retrying", "") ELSE inner

\* Lines 29 and 42: the loop condition fails and RetryFunc returns err.
LoopExit ==
    /\ pc = "loop"
    /\ ~LoopCond(now, deadline)
    /\ pc' = "done"
    /\ retryRet' = err
    /\ awaitRet' = IF fnKind = "process" THEN AwaitResult(err, innererr)
                   ELSE awaitRet
    /\ UNCHANGED <<fnKind, timeout, now, deadline, pause, tryCount, err,
                   attempts, slept>>
    /\ UNCHANGED <<opVars, isdone, innererr, awaits, cancelVars, envVars, persistVars>>

NextRetry ==
    \/ \E t \in Timeouts, lag \in 0..MaxStartLag : CallRetryFunc(t, lag)
    \/ \E outcome \in FnErrors \cup {Nil}, dur \in FnDurations :
          PlainAttempt(outcome, dur)
    \/ Sleep
    \/ LoopExit

SpecRetry == Init /\ [][NextRetry]_vars

\* ---- ProcessLongRunningOperationToCompletion ----

\* Lines 159-163: the driver enters RetryFunc(time.Minute*10, closure).
\* The first loop check follows at once: against ten minutes the time
\* between time.Now() and the check does not decide it.
CallAwait ==
    /\ pc \in {"idle", "done"}
    /\ awaits < MaxAwaits
    /\ awaits' = awaits + 1
    /\ isdone' = FALSE
    /\ innererr' = Nil
    /\ awaitRet' = Nil
    /\ EnterRetry(TenMinutes, 0, "process")
    /\ cancelled' = FALSE
    /\ callsAfterCancel' = 0
    /\ sleepsAfterCancel' = 0
    /\ UNCHANGED <<opVars, envVars, persistVars>>

\* Lines 163-168 inside RetryFunc's lines 29-32: the closure calls
\* l.Process(ctx) and fails with "trying continues" unless it was terminal.
\* The clock is advanced by the call's duration when RetryFunc goes on to
\* read it again; after a terminal call it returns without reading it.
ProcessAttempt(rep, dur) ==
    /\ pc = "loop"
    /\ fnKind = "process"
    /\ LoopCond(now, deadline)
    /\ cancelled => rep = [opResult |-> NilOp, err |-> Canceled]
    /\ callsAfterCancel' = IF cancelled /\ Process(op, rep).call # NoCall
                           THEN Min(callsAfterCancel + 1, MaxCount)
                           ELSE callsAfterCancel
    /\ now' = IF Process(op, rep).terminal THEN now ELSE now + dur
    /\ attempts' = Min(attempts + 1, MaxCount)
    /\ DoProcess(rep)
    /\ UNCHANGED <<reply, pre, triggersOk>>
    /\ LET r == Process(op, rep)
           e == ClosureError(r.terminal, r.err) IN
       /\ isdone' = r.terminal
       /\ innererr' = r.err
       /\ err' = e
       /\ IF e = Nil
          THEN /\ pc' = "done"
               /\ retryRet' = Nil
               /\ awaitRet' = AwaitResult(Nil, r.err)
          ELSE /\ pc' = "sleep"
               /\ UNCHANGED <<retryRet, awaitRet>>
    /\ UNCHANGED <<fnKind, timeout, deadline, pause, tryCount, slept, awaits>>
    /\ UNCHANGED <<cancelled, sleepsAfterCancel>>
    /\ UNCHANGED <<envVars, persistVars>>

\* The caller cancels ctx while the await call is running: the transport
\* call in flight, and every later one, fails with the context's error.
Cancel ==
    /\ pc \in {"loop", "sleep"}
    /\ fnKind = "process"
    /\ ~cancelled
    /\ cancelled' = TRUE
    /\ UNCHANGED <<callsAfterCancel, sleepsAfterCancel>>
    /\ UNCHANGED <<opVars, retryVars, awaitVars, envVars, persistVars>>

\* The replies the driver's collaborators give: a reply that is not done
\* carries no result (Process never reads the result of such a reply).
AwaitReplies ==
    { r \in Replies :
        \/ GetDone(r.opResult)
        \/ GetError(r.opResult) = NilStatus /\ GetResponse(r.opResult) = NilAny }

NextAwait ==
    \/ CallAwait
    \/ \E rep \in AwaitReplies, dur \in FnDurations : ProcessAttempt(rep, dur)
    \/ Sleep
    \/ LoopExit
    \/ Cancel

\* The driver is followed for one of the requests.
InitAwait == Init /\ op.Request.body = "ping"

SpecAwait == InitAwait /\ [][NextAwait]_vars

\* Every collaborator call returns and the clock advances: a running
\* RetryFunc always takes its next step.
SpecAwaitFair ==
    /\ InitAwait
    /\ [][NextAwait]_vars
    /\ WF_vars(\E rep \in AwaitReplies, dur \in FnDurations : ProcessAttempt(rep, dur))
    /\ WF_vars(Sleep)
    /\ WF_vars(LoopExit)

\* ---- CustomProtoMessage ----

\* A caller wraps the message m.
Wrap(m) ==
    /\ epc = "idle"
    /\ msgIn' = m
    /\ env' = CreateCustomProtoMessage(m)
    /\ epc' = "wrapped"
    /\ UNCHANGED <<data, fed, out>>
    /\ UNCHANGED <<opVars, retryVars, awaitVars, cancelVars, persistVars>>

\* json.Marshal reaches the envelope's MarshalJSON.
EnvelopeMarshal ==
    /\ epc = "wrapped"
    /\ ~env.isnil
    /\ data' = EnvelopeMarshalJSON(env)
    /\ epc' = "marshalled"
    /\ UNCHANGED <<msgIn, env, fed, out>>
    /\ UNCHANGED <<opVars, retryVars, awaitVars, cancelVars, persistVars>>

\* json.Unmarshal reaches UnmarshalJSON of a new envelope of the same type
\* with the bytes b.
EnvelopeUnmarshal(b) ==
    /\ epc = "marshalled"
    /\ fed' = b
    /\ out' = EnvelopeUnmarshalJSON(Envelope(NilProto(env.Msg.type)), b)
    /\ epc' = "unmarshalled"
    /\ UNCHANGED <<msgIn, env, data>>
    /\ UNCHANGED <<opVars, retryVars, awaitVars, cancelVars, persistVars>>

NextEnvelope ==
    \/ \E m \in ProtoMsgs \cup {NilProto(t) : t \in MsgTypes} : Wrap(m)
    \/ EnvelopeMarshal
    \/ \E b \in ForeignBytes \cup (IF data.err = Nil THEN {data.bytes} ELSE {}) :
          EnvelopeUnmarshal(b)

SpecEnvelope == Init /\ [][NextEnvelope]_vars

\* ---- Persisting an Operation ----

\* json.Marshal(l): the Operation is serialized.
SaveOperation ==
    /\ pc = "idle"
    /\ ppc = "none"
    /\ saved' = OperationMarshalJSON(op)
    /\ orig' = op
    /\ ppc' = "saved"
    /\ UNCHANGED loadErr
    /\ UNCHANGED <<opVars, retryVars, awaitVars, cancelVars, envVars>>

\* json.Unmarshal(data, l) into an Operation newly created with the same
\* collaborators; it takes the place of the original, and the record of
\* calls starts again for it.
LoadOperation ==
    /\ pc = "idle"
    /\ ppc = "saved"
    /\ saved.err = Nil
    /\ LET r == OperationUnmarshalJSON(CreateLongrunningOperation(NilMsg),
                                       saved.bytes) IN
       /\ op' = r.l
       /\ loadErr' = r.err
    /\ ret' = NoRet
    /\ call' = NoCall
    /\ reply' = NoReply
    /\ pre' = op'
    /\ firstTerminal' = NoTerminal
    /\ triggersOk' = 0
    /\ ppc' = "loaded"
    /\ UNCHANGED <<orig, saved>>
    /\ UNCHANGED <<retryVars, awaitVars, cancelVars, envVars>>

\* Process calls are made before the Operation is serialized, and one
\* more on the rebuilt Operation.
NextPersist ==
    \/ \E rep \in Replies :
          /\ ppc = "none" \/ (ppc = "loaded" /\ ~ret.valid)
          /\ ProcessCall(rep)
    \/ SaveOperation
    \/ LoadOperation

SpecPersist == Init /\ [][NextPersist]_vars

\* ------------------------------------------------------------------------
\* Properties
\* ------------------------------------------------------------------------

Fresh(o) == o = CreateLongrunningOperation(o.Request)
Terminal(o) == o.OperationDone \/ o.OperationError # Nil
InProgress(o) ==
    o.OperationName # "" /\ ~o.OperationDone /\ o.OperationError = Nil
CompletedSuccess(o) ==
    o.OperationDone /\ o.Response # NilMsg /\ o.OperationError = Nil
TimeoutError == Errorf("timed-out while retrying", "")

\* C1: once a Process call has returned terminal=true, every later Process
\* call returns the same (terminal, error) pair as that first terminal call
\* and calls neither trigger nor get.
C1_TerminalIsIdempotent ==
    [][firstTerminal.seen =>
         /\ ret'.terminal
         /\ ret'.err = firstTerminal.err
         /\ call' = NoCall]_opVars

\* A Process call was made on an Operation that had already reported
\* terminal=true.
C1_Witness ==
    /\ firstTerminal.seen
    /\ Terminal(pre)
    /\ ret.valid /\ ret.terminal
    /\ call = NoCall

\* C2: once OperationName is non-empty, no Process call changes it,
\* whatever name the reply carries.
C2_NameNeverChanges ==
    [][op.OperationName # "" => op'.OperationName = op.OperationName]_opVars

\* C3: terminal states are sinks: once OperationDone is true or
\* OperationError is set, a Process call changes no field of the Operation.
C3_TerminalIsSink ==
    [][Terminal(op) => op' = op]_opVars

\* A Process call was made on a terminal Operation, with a reply that would
\* have changed it had it been consumed.
C3_Witness ==
    /\ ret.valid
    /\ Terminal(pre)
    /\ pre = op
    /\ reply.err = Nil
    /\ GetName(reply.opResult) # op.OperationName

\* C4: Response and OperationError are never populated together, and when
\* neither is populated OperationDone is false.
C4_ResponseXorError ==
    /\ ~(op.Response # NilMsg /\ op.OperationError # Nil)
    /\ (op.Response = NilMsg /\ op.OperationError = Nil) => ~op.OperationDone

\* C5: whenever OperationError is set, OperationDone is true.
C5_ErrorImpliesDone ==
    op.OperationError # Nil => op.OperationDone

\* C6: on a fresh Operation a trigger reply {name=n, done=false} makes
\* Process return (false, nil) with name=n and no error or response; on an
\* in-progress Operation a get reply {done=true, no error, a decodable
\* payload of type Resp} makes Process return (true, nil) and store exactly
\* the decoded payload, with no error.
C6_HappyPath ==
    ret.valid /\ reply.err = Nil =>
      /\ ( /\ Fresh(pre)
           /\ GetName(reply.opResult) \in Names
           /\ ~GetDone(reply.opResult) )
         => /\ ret = [valid |-> TRUE, terminal |-> FALSE, err |-> Nil]
            /\ call = [fn |-> "trigger", name |-> "", req |-> pre.Request]
            /\ op.OperationName = GetName(reply.opResult)
            /\ op.OperationError = Nil
            /\ op.Response = NilMsg
      /\ ( /\ InProgress(pre)
           /\ GetDone(reply.opResult)
           /\ GetError(reply.opResult) = NilStatus
           /\ GetResponse(reply.opResult).typeUrl = "Resp"
           /\ GetResponse(reply.opResult).value # "corrupt" )
         => /\ ret = [valid |-> TRUE, terminal |-> TRUE, err |-> Nil]
            /\ call = [fn |-> "get", name |-> pre.OperationName, req |-> NilMsg]
            /\ op.Response = [type |-> "Resp",
                              body |-> GetResponse(reply.opResult).value]
            /\ op.OperationError = Nil
            /\ op.OperationDone

\* The second step of the happy path has happened: a get on an in-progress
\* Operation completed it with a response.
C6_Witness ==
    /\ ret.valid
    /\ InProgress(pre)
    /\ call.fn = "get"
    /\ CompletedSuccess(op)
    /\ op.Response.body = "pong"

\* C7: when the await call gives up at its deadline with the Operation not
\* terminal, it returns the timeout error, that error is not stored, and
\* the Operation is left in progress: name set, done=false, error unset.
C7_TimeoutLeavesInProgress ==
    (pc = "done" /\ fnKind = "process" /\ ~isdone) =>
      /\ awaitRet = TimeoutError
      /\ awaitRet \notin TransportErrors
      /\ op.OperationError = Nil
      /\ InProgress(op)

\* C8: when the await call returns with the Operation terminal, it returns
\* the recorded OperationError itself, and nil only for an Operation that
\* completed with a response.
C8_ReturnsRecordedError ==
    (pc = "done" /\ fnKind = "process" /\ isdone) =>
      /\ awaitRet = op.OperationError
      /\ awaitRet = Nil => CompletedSuccess(op)

\* C9: RetryFunc calls the closure at least once for every timeout.
C9_AtLeastOneAttempt ==
    (pc = "done" /\ fnKind = "plain") => attempts >= 1

\* The n-th pause of the claimed backoff sequence, in milliseconds:
\* 50, 100, 200, 400, 800, 1000, 1000, ...
BackoffMs(n) == IF n <= 5 THEN 50 * 2^(n - 1) ELSE 1000

\* C10: the pauses slept are 50ms, 100ms, 200ms, 400ms, 800ms, 1000ms,
\* 1000ms, ... in this order; a sleep only follows a failed attempt; and a
\* closure that fails every time is attempted at least 4 times under a
\* 5-second timeout.
C10_BackoffSequence ==
    /\ \A i \in 1..Len(slept) : slept[i] * TickMs = BackoffMs(i)
    /\ Len(slept) <= attempts
    /\ pc = "sleep" => err # Nil
    /\ (pc = "done" /\ fnKind = "plain" /\ timeout = FiveSeconds /\ retryRet # Nil)
          => attempts >= 4

\* RetryFunc gave up on a closure that failed every time under the 5-second
\* timeout, after sleeping the capped pause twice.
C10_Witness ==
    /\ pc = "done" /\ fnKind = "plain"
    /\ timeout = FiveSeconds
    /\ retryRet # Nil
    /\ Len(slept) >= 7
    /\ slept[6] * TickMs = 1000
    /\ slept[7] * TickMs = 1000

\* C11: when RetryFunc gives up at the deadline it returns the non-nil
\* error of the last attempt, and it returns nil only when some attempt
\* returned nil.
C11_ReturnsLastError ==
    [][fnKind' = "plain" =>
         /\ (pc = "loop" /\ now > deadline) =>
               (retryRet' = err /\ retryRet' # Nil)
         /\ (pc' = "done" /\ retryRet' = Nil) => attempts' >= 1]_vars

\* C14: when trigger or get fails with a transport error, Process records
\* that error in OperationError, returns (true, that error) and leaves the
\* name, the done flag, the request and the response as they were.
C14_TransportErrorFrame ==
    (ret.valid /\ ~Terminal(pre) /\ reply.err # Nil) =>
      /\ ret = [valid |-> TRUE, terminal |-> TRUE, err |-> reply.err]
      /\ op.OperationError = reply.err
      /\ op.OperationName = pre.OperationName
      /\ op.OperationDone = pre.OperationDone
      /\ op.Request = pre.Request
      /\ op.Response = pre.Response

\* A get on an in-progress Operation failed with a transport error.
C14_Witness ==
    /\ ret.valid
    /\ InProgress(pre)
    /\ call.fn = "get"
    /\ reply.err \in TransportErrors
    /\ op.OperationError = reply.err

\* C15: a Process call on a non-terminal Operation makes one collaborator
\* call: trigger with the stored request when the name is empty, get with
\* the stored name otherwise; get never receives an empty name and Process
\* never changes the request.
C15_OneCollaboratorCall ==
    ret.valid =>
      /\ ~Terminal(pre) =>
           call = IF pre.OperationName = ""
                  THEN [fn |-> "trigger", name |-> "", req |-> pre.Request]
                  ELSE [fn |-> "get", name |-> pre.OperationName, req |-> NilMsg]
      /\ call.fn = "get" => call.name # ""
      /\ call.fn = "trigger" => call.req \in Requests
      /\ op.Request = pre.Request

\* Both kinds of call have been seen: the last one was a get by name on an
\* Operation whose name an earlier trigger had set.
C15_Witness ==
    /\ ret.valid
    /\ ~Terminal(pre)
    /\ call.fn = "get"
    /\ call.name = pre.OperationName
    /\ call.name \in Names

\* A done reply whose result cannot become a Response: an embedded error, a
\* payload that does not decode, or a payload of another type than Resp.
BadResult(x) ==
    \/ GetError(x) # NilStatus
    \/ UnmarshalNew(GetResponse(x)).err # Nil
    \/ UnmarshalNew(GetResponse(x)).msg.type # "Resp"

\* C16: for a done reply with an embedded error, an undecodable payload or
\* a payload of another type, Process returns terminal=true with a non-nil
\* error (for an embedded error: with its code and message), stores that
\* error in OperationError and leaves Response unset.
C16_BadResultIsError ==
    ( /\ ret.valid /\ ~Terminal(pre) /\ reply.err = Nil
      /\ GetDone(reply.opResult) /\ BadResult(reply.opResult) ) =>
      /\ ret.terminal
      /\ ret.err # Nil
      /\ GetError(reply.opResult) # NilStatus =>
           /\ ret.err.code = GetError(reply.opResult).code
           /\ ret.err.msg = GetError(reply.opResult).message
      /\ op.OperationError = ret.err
      /\ op.Response = NilMsg

\* C17: when the deadline has already passed at the first check of the
\* loop condition, RetryFunc returns nil without calling the closure.
C17_ExpiredDeadlineNoAttempt ==
    [][(pc = "loop" /\ fnKind = "plain" /\ attempts = 0 /\ now > deadline) =>
         (pc' = "done" /\ attempts' = 0 /\ retryRet' = Nil)]_vars

\* RetryFunc returned from a call whose deadline was in the past at the
\* first check.
C17_Witness ==
    /\ pc = "done" /\ fnKind = "plain"
    /\ attempts = 0
    /\ now > deadline
    /\ retryRet = Nil

\* C18: over any sequence of Process calls the trigger collaborator returns
\* without transport error at most once; every later remote call is a get.
C18_TriggerAtMostOnce ==
    triggersOk <= 1

\* CreateCustomProtoMessage returns nil for a nil message and an envelope
\* holding the message otherwise.
WrapLaw ==
    epc # "idle" =>
      /\ msgIn.isnil => env.isnil
      /\ ~msgIn.isnil => (~env.isnil /\ env.Msg = msgIn)

C13_RebuiltIsUsable ==
    /\ (ppc = "loaded" /\ ~ret.valid) =>
          /\ loadErr = Nil
          /\ op.OperationName = orig.OperationName
          /\ op.OperationDone = orig.OperationDone
          /\ op.OperationError = orig.OperationError
          /\ (op.Response # NilMsg) <=> (orig.Response # NilMsg)
    /\ (ppc = "loaded" /\ ret.valid /\ InProgress(pre)) =>
          call = [fn |-> "get", name |-> pre.OperationName, req |-> NilMsg]

\* C19: once the context is cancelled, the await call makes at most one
\* more collaborator call, the one the cancellation aborts, starts at most
\* the sleep it was about to take, and has returned the cancellation error
\* as soon as that call has failed.
C19_CancelStopsPolling ==
    cancelled =>
      /\ callsAfterCancel <= 1
      /\ sleepsAfterCancel <= 1
      /\ callsAfterCancel = 1 =>
           /\ pc = "done"
           /\ awaitRet = Canceled
           /\ op.OperationError = Canceled

\* The context was cancelled during a sleep; the next get was aborted and
\* the await call returned.
C19_Witness ==
    /\ cancelled
    /\ sleepsAfterCancel = 1
    /\ callsAfterCancel = 1
    /\ call.fn = "get"
    /\ pc = "done"
    /\ awaitRet = Canceled

\* C20: a running await call eventually returns; and once a Process call
\* of the closure has reported terminal=true the await call has returned,
\* with that call's error and not with the timeout error.
C20_AwaitReturns ==
    /\ (fnKind = "process" /\ pc \in {"loop", "sleep"}) ~> (pc = "done")
    /\ [](isdone =>
            /\ pc = "done"
            /\ awaitRet = innererr
            /\ awaitRet = op.OperationError
            /\ awaitRet # TimeoutError)

\* The await call returned on the terminal outcome of a later poll.
C20_Witness ==
    /\ fnKind = "process" /\ pc = "done"
    /\ isdone
    /\ attempts >= 2
    /\ call.fn = "get"
    /\ op.OperationDone
    /\ awaitRet = op.OperationError

====
